---- MODULE Spec2Model ----
(***************************************************************************)
(* Model of camera-alert-to-telegram: src/config.py (Config) and           *)
(* src/app.py (ring buffer, alert state machine, clip extraction, capture  *)
(* loop).                                                                  *)
(*                                                                         *)
(* Time is an integer clock whose unit is one frame interval (1/fps        *)
(* seconds); a duration of s seconds is s * Config.fps clock units.  The   *)
(* halves of the clip window (video_length_secs / 2) are compared on       *)
(* doubled values so that odd lengths keep their half second.              *)
(* An optional value (Python None or a datetime) is the empty sequence or  *)
(* a one-element sequence.                                                 *)
(***************************************************************************)
EXTENDS Integers, Sequences, FiniteSets, TLC

VARIABLES
    phase,                          \* position of the script: start, loaded, running, ended
    args,                           \* argparse inputs of Config.parse_arguments
    Config,                         \* class attributes of Config
    buffer_size,                    \* main: maxlen of the deque
    video_buffer,                   \* main: deque of <<timestamp, frame>>
    clock,                          \* wall clock (datetime.now())
    stalls,                         \* number of long gaps between two frames so far
    frames_read,                    \* number of frames read from the stream
    on_alert,                       \* process_frames locals
    motion_frame_count,
    last_motion,
    last_alert,
    first_motion_time,
    last_motion_picture_time,
    current_frame_motion_detected,
    now,                            \* handle_motion_detection: now of the latest frame step
    video_dir,                      \* .mp4 files of Config.video_directory, oldest ctime first
    save,                           \* the save_video call of the latest frame step
    opened,                         \* the latest frame step opened an alert
    open_count,                     \* alerts opened so far
    extract_count,                  \* alert-triggered save_video calls so far
    alert_open_time,                \* now of the latest alert opening
    extract_frame,                  \* number of the frame of the latest alert-triggered save_video
    recent,                         \* the latest min_motion_frames classifier outputs, oldest first
    load_error,                     \* what Config.load rejected, or "ok"
    pc,                             \* capture loop: "loop", or the send it awaits
    pending,                        \* values handle_motion_detection returns once the send is over
    loop_exit,                      \* why process_frames left its loop, or "none"
    error_alert,                    \* send_error_alert of the capture loop
    send_result,                    \* outcome of the latest send of the capture loop
    cmd,                            \* the bot command handled by the latest step
    commands,                       \* bot commands handled so far
    saves_ok,                       \* save_video calls that returned a filename so far
    malformed,                      \* the frame of the latest iteration was malformed or empty
    enc                             \* the encoders of the latest save_video call of SpecEncoder

vars == <<phase, args, Config, buffer_size, video_buffer, clock, stalls, frames_read,
          on_alert, motion_frame_count, last_motion, last_alert, first_motion_time,
          last_motion_picture_time, current_frame_motion_detected, now, video_dir,
          save, opened, open_count, extract_count, alert_open_time, extract_frame, recent,
          load_error, pc, pending, loop_exit, error_alert, send_result, cmd, commands, saves_ok,
          malformed, enc>>

\* The variables the capture loop and the bot add to the alert state machine.
loopVars == <<pc, pending, loop_exit, error_alert, send_result, cmd, commands, malformed,
             enc>>

----
\* Bounds of the model.
MaxTime == 18                       \* the clock stops here
MaxStalls == 1                      \* long gaps per behaviour
StallSecs == 6                      \* length of a long gap (blocking read, slow send)
ArgMax == 12                        \* largest integer argument explored by SpecArgs

\* Integer arguments explored by SpecArgs: below, at and above the minimums.
ArgRange == (0 - 3)..ArgMax

\* Inputs of the main specification.
UseTelegramInputs == {TRUE}
FpsInputs == {1}
VideoSecondsInputs == {4}
SecsBetweenAlertsInputs == {5}
MinMotionFramesInputs == {2}
AvailableCodecSets == {{}, {"mp4v"}, {"H264", "XVID"}}

None == <<>>
Some(t) == <<t>>
Max(a, b) == IF a >= b THEN a ELSE b
Min(a, b) == IF a <= b THEN a ELSE b

----
\* Config.motion_picture and Config.motion_picture_cooldown_secs, read by
\* handle_motion_detection (app.py 273-274); config.py does not define them.
motion_picture == TRUE
motion_picture_cooldown_secs == 5

\* Config: class defaults (config.py 13-24) and the values app.py reads.
ConfigDefaults ==
    [ use_telegram |-> FALSE,
      max_video_files |-> 20,
      video_length_secs |-> 8,
      detection_seconds |-> 2,
      secs_between_alerts |-> 8,
      fps |-> 5,
      min_motion_frames |-> 2,
      rtsp |-> "",
      token |-> "",
      chat_id |-> "",
      mask |-> <<0, 0, 0, 0>>,
      slow_motion10 |-> 10,
      motion_picture |-> motion_picture,
      motion_picture_cooldown_secs |-> motion_picture_cooldown_secs ]

\* Mutation of parse_arguments: the cooldown is raised against the unclamped video length.
parse_arguments_ClampOrder(cfg, a) ==
    [cfg EXCEPT !.use_telegram = a.use_telegram,
                !.rtsp = a.rtsp, !.mask = a.mask, !.slow_motion10 = a.slow_motion10,
                !.video_length_secs = Max(a.video_seconds, 4),
                !.detection_seconds = Max(a.detection_seconds, 0),
                !.secs_between_alerts = Max(a.secs_between_alerts, a.video_seconds + 1),
                !.fps = a.fps,
                !.min_motion_frames = a.min_motion_frames]

\* Config.parse_arguments: assignments of lines 92-102, minimums of lines 108-110.
parse_arguments(cfg, a) ==
    LET assigned == [cfg EXCEPT !.use_telegram = a.use_telegram,
                                !.rtsp = a.rtsp,
                                !.mask = a.mask,
                                !.slow_motion10 = a.slow_motion10,
                                !.video_length_secs = a.video_seconds,
                                !.detection_seconds = a.detection_seconds,
                                !.secs_between_alerts = a.secs_between_alerts,
                                !.fps = a.fps,
                                !.min_motion_frames = a.min_motion_frames]
        vls == Max(assigned.video_length_secs, 4)
    IN [assigned EXCEPT !.video_length_secs = vls,
                        !.detection_seconds = Max(assigned.detection_seconds, 0),
                        !.secs_between_alerts = Max(assigned.secs_between_alerts, vls + 1)]

\* Config.load, lines 33-43: the environment supplies the token and the chat id (the
\* empty string is an unset variable).
LoadEnv(cfg, a) == [cfg EXCEPT !.token = a.token, !.chat_id = a.chat_id]

\* Mutation of validate_mask: the vertical bounds are not compared.
validate_mask_OnlyX(mask) ==
    IF mask[1] >= mask[3] THEN "mask"
    ELSE IF \E i \in 1..4 : mask[i] < 0 THEN "mask"
    ELSE "ok"

\* Config.validate_mask, lines 116-129; argparse has made the mask four integers.
validate_mask(mask) ==
    IF mask[1] >= mask[3] \/ mask[2] >= mask[4] THEN "mask"
    ELSE IF \E i \in 1..4 : mask[i] < 0 THEN "mask"
    ELSE "ok"

\* Config.validate_telegram_settings, lines 131-135.
validate_telegram_settings(cfg) ==
    IF cfg.use_telegram /\ (cfg.token = "" \/ cfg.chat_id = "") THEN "telegram" ELSE "ok"

\* Config.load, lines 48-55 and parse_arguments, lines 113-114: the first check that
\* fails ends the script; slow_motion is held in tenths.
LoadCheck(cfg) ==
    IF cfg.rtsp = "" THEN "rtsp"
    ELSE IF cfg.slow_motion10 <= 0 THEN "slow_motion"
    ELSE IF validate_mask(cfg.mask) # "ok" THEN validate_mask(cfg.mask)
    ELSE validate_telegram_settings(cfg)

\* timedelta(seconds=s) in clock units.
Secs(s) == s * Config.fps

\* main, lines 531-532.
BufferSize(cfg) == cfg.fps * (cfg.video_length_secs + cfg.secs_between_alerts + 5)

\* Mutation of DequeAppend: a full deque keeps growing.
DequeAppend_NoEvict(buf, e, maxlen) == Append(buf, e)

\* collections.deque(maxlen).append
DequeAppend(buf, e, maxlen) ==
    IF maxlen = 0 THEN buf
    ELSE IF Len(buf) >= maxlen THEN Append(Tail(buf), e)
    ELSE Append(buf, e)

\* Mutation of update_motion_frame_count: a negative frame keeps the count.
update_motion_frame_count_NoReset(current_motion_detected, current_count) ==
    LET count == IF current_motion_detected THEN current_count + 1 ELSE current_count
    IN [count |-> count, is_sustained_motion |-> count >= Config.min_motion_frames]

\* Mutation of update_motion_frame_count: motion is sustained one frame late.
update_motion_frame_count_OffByOne(current_motion_detected, current_count) ==
    LET count == IF current_motion_detected THEN current_count + 1 ELSE 0
    IN [count |-> count, is_sustained_motion |-> count > Config.min_motion_frames]

\* update_motion_frame_count
update_motion_frame_count(current_motion_detected, current_count) ==
    LET count == IF current_motion_detected THEN current_count + 1 ELSE 0
    IN [count |-> count, is_sustained_motion |-> count >= Config.min_motion_frames]

\* save_video, lines 100-116: the first codec of the list whose writer opens.
codecs_to_try == <<"mp4v", "avc1", "H264", "XVID">>

FirstCodec(available) ==
    LET idx == {i \in 1..Len(codecs_to_try) : codecs_to_try[i] \in available}
    IN IF idx = {} THEN "none"
       ELSE codecs_to_try[CHOOSE i \in idx : \A j \in idx : i <= j]

\* cv2.VideoWriter(filename, ...) that opens creates (or truncates) the file.
CreateFile(dir, name) ==
    LET NotName(f) == f # name
    IN Append(SelectSeq(dir, NotName), name)

\* Mutation of Retention: the list is sorted newest first and the newest are deleted.
Retention_DropsNewest(dir, max_files) ==
    IF Len(dir) > max_files /\ max_files >= 0
    THEN SubSeq(dir, 1, max_files)
    ELSE dir

\* save_video, lines 157-166: delete the oldest files above max_video_files.
Retention(dir, max_files) ==
    IF Len(dir) > max_files /\ max_files >= 0
    THEN SubSeq(dir, Len(dir) - max_files + 1, Len(dir))
    ELSE dir

\* Mutation of SaveWindow: the tail window is used whatever the caller.
SaveWindow_Tail(save_duration, prefix, fmt, tnow) ==
    <<2 * (tnow - Secs(save_duration)), 2 * tnow>>

\* save_video, lines 126-133: the window, as doubled clock values <<start, end>>.
SaveWindow(save_duration, prefix, fmt, tnow) ==
    IF fmt # None /\ prefix = "motion"
    THEN <<2 * fmt[1] - Secs(save_duration), 2 * fmt[1] + Secs(save_duration)>>
    ELSE <<2 * (tnow - Secs(save_duration)), 2 * tnow>>

\* Mutation of FramesInWindow: the end of the window is excluded.
FramesInWindow_OpenEnd(buffer_copy, window) ==
    LET InWindow(e) == window[1] <= 2 * e[1] /\ 2 * e[1] < window[2]
    IN SelectSeq(buffer_copy, InWindow)

\* save_video, lines 146-149: the entries written to the encoder.
FramesInWindow(buffer_copy, window) ==
    LET InWindow(e) == window[1] <= 2 * e[1] /\ 2 * e[1] <= window[2]
    IN SelectSeq(buffer_copy, InWindow)

\* The encoders of one save_video call, lines 100-119 and 172-181.
\* What cv2.VideoWriter does for a codec: the writer is created and is open, is created
\* and is not open, or its creation raises.
WriterOutcomes == {"opened", "closed", "raised"}

\* The ways save_video ends once an encoder is open: lines 170, 151-153, 122-124, an
\* exception of out.write (line 148), an exception of the retention (lines 157-168).
SaveExits == {"success", "zero_frames", "snapshot_empty", "write_exception",
              "retention_exception"}

\* save_video, lines 110-111: the writer that is not open is released.
ReleaseCandidate(i) == << <<"release", i>> >>

\* save_video, lines 102-114: the loop over codecs_to_try from index i on, as the events
\* it produces; it stops at the first writer that is open.
RECURSIVE TryCodecs(_, _)
TryCodecs(i, outcome) ==
    IF i > Len(codecs_to_try) THEN <<>>
    ELSE IF outcome[i] = "raised" THEN << <<"try", i>> >> \o TryCodecs(i + 1, outcome)
    ELSE IF outcome[i] = "opened" THEN << <<"try", i>>, <<"create", i>> >>
    ELSE << <<"try", i>>, <<"create", i>> >> \o ReleaseCandidate(i)
             \o TryCodecs(i + 1, outcome)

\* Mutation of FinallyReleases: the writer is released at the end of the normal path.
FinallyReleases_OnlyOnSuccess(exit) == exit = "success"

\* save_video, lines 176-181: the finally block releases out on every way out of the try.
FinallyReleases(exit) == TRUE

NoEnc == [ called |-> FALSE, buffer_empty |-> FALSE, outcome |-> <<>>, exit |-> "none",
          out |-> 0, events |-> <<>>, result |-> "none" ]

\* save_video as far as its encoders go: buffer_empty is the test of line 86, outcome[i]
\* what the writer of codecs_to_try[i] does, exit the way the call ends when one opened.
save_video_encoders(buffer_empty, outcome, exit) ==
    LET base == [NoEnc EXCEPT !.called = TRUE, !.buffer_empty = buffer_empty,
                              !.outcome = outcome, !.exit = exit]
        opening == {i \in 1..Len(codecs_to_try) : outcome[i] = "opened"}
        out == IF opening = {} THEN 0 ELSE CHOOSE i \in opening : \A j \in opening : i <= j
        tried == TryCodecs(1, outcome)
        released == IF FinallyReleases(exit) THEN << <<"release", out>> >> ELSE <<>>
    IN IF buffer_empty THEN [base EXCEPT !.events = << <<"return", 0>> >>]
       ELSE IF out = 0 THEN [base EXCEPT !.events = tried \o << <<"return", 0>> >>]
       ELSE [base EXCEPT !.out = out,
                         !.events = tried \o released \o << <<"return", 0>> >>,
                         !.result = IF exit \in {"success", "retention_exception"}
                                    THEN "filename" ELSE "none"]

\* Mutation of SaveYields: save_video is a coroutine that awaits while it writes.
SaveYields_Awaits == TRUE

\* save_video, lines 78-181, is a plain function without an await, and its callers
\* (lines 291 and 437) call it without one: the event loop runs nothing else between its
\* first and its last line.
SaveYields == FALSE

\* The record of a save_video call; in_progress: the call has not returned when the
\* event loop next runs another task.
NoSave ==
    [ called |-> FALSE, prefix |-> "", result |-> None, filename |-> None, encoder |-> "none",
      snapshot |-> <<>>, window |-> <<0, 0>>, written |-> <<>>, truncated |-> FALSE,
      dir |-> <<>>, in_progress |-> FALSE ]

\* save_video(video_buffer, duration_seconds, prefix, first_motion_time), called at
\* clock value tnow with the set of codecs the platform can open and the directory dir.
save_video(buf, duration_seconds, prefix, fmt, tnow, available, dir) ==
    LET save_duration == IF duration_seconds # None THEN duration_seconds[1]
                         ELSE Config.video_length_secs
        filename == <<prefix, tnow, save_duration>>
        codec == FirstCodec(available)
        buffer_copy == buf
        window == SaveWindow(save_duration, prefix, fmt, tnow)
        written == FramesInWindow(buffer_copy, window)
        base == [NoSave EXCEPT !.called = TRUE, !.prefix = prefix, !.window = window,
                               !.dir = dir, !.in_progress = SaveYields]
    IN IF Len(buf) = 0 THEN base
       ELSE IF codec = "none" THEN [base EXCEPT !.filename = Some(filename)]
       ELSE LET opened_dir == CreateFile(dir, filename)
                ran == [base EXCEPT !.filename = Some(filename), !.encoder = codec,
                                    !.snapshot = buffer_copy,
                                    !.written = written,
                                    !.truncated = (window[1] < 2 * buffer_copy[1][1]),
                                    !.dir = opened_dir]
            IN IF Len(written) = 0 THEN ran
               ELSE [ran EXCEPT !.result = Some(filename),
                                !.dir = Retention(opened_dir, Config.max_video_files)]

\* Mutation of ClipDue: the extraction runs as soon as a first motion time is set.
ClipDue_Early(fmt, tnow) == fmt # None

\* handle_motion_detection, lines 287-290: the open alert has reached half the clip length
\* since the first motion.
ClipDue(fmt, tnow) ==
    LET time_since_first_motion2 == IF fmt # None THEN 2 * (tnow - fmt[1]) ELSE 0
    IN time_since_first_motion2 >= Secs(Config.video_length_secs)

\* Mutation of ResetAfterClip: the reset is made only after a successful save.
ResetAfterClip_OnlyIfSaved(extract, saved_video_path) == extract /\ saved_video_path # None

\* handle_motion_detection, lines 298-308: the alert state is reset after the extraction
\* whether or not save_video returned a path.
ResetAfterClip(extract, saved_video_path) == extract

\* Mutation of ShouldAlert: the cooldown is not checked.
ShouldAlert_NoCooldown(is_sustained_motion, oa, la, tnow) == is_sustained_motion /\ ~oa

\* Mutation of ShouldAlert: an alert may open while one is open.
ShouldAlert_Reentrant(is_sustained_motion, oa, la, tnow) ==
    /\ is_sustained_motion
    /\ (la = None \/ tnow - la[1] > Secs(Config.secs_between_alerts))

\* handle_motion_detection, lines 310-314: sustained motion opens an alert.
ShouldAlert(is_sustained_motion, oa, la, tnow) ==
    /\ is_sustained_motion /\ ~oa
    /\ (la = None \/ tnow - la[1] > Secs(Config.secs_between_alerts))

\* Mutation of CanSendPicture: the cooldown of the motion picture is not checked.
CanSendPicture_NoCooldown(lmpt, tnow) == Config.motion_picture /\ Config.use_telegram

\* handle_motion_detection, lines 273-276: the motion picture is enabled and none was
\* sent before or the last one is older than the cooldown.
CanSendPicture(lmpt, tnow) ==
    /\ Config.motion_picture /\ Config.use_telegram
    /\ (lmpt = None \/ tnow - lmpt[1] > Secs(Config.motion_picture_cooldown_secs))

\* Mutation of NextLastMotion: any negative frame clears last_motion.
NextLastMotion_AnyPause(motion_detected, lm, tnow) ==
    IF motion_detected THEN Some(tnow) ELSE None

\* handle_motion_detection, lines 319-322.
NextLastMotion(motion_detected, lm, tnow) ==
    IF motion_detected THEN Some(tnow)
    ELSE IF lm # None /\ tnow - lm[1] > Secs(2) THEN None
    ELSE lm

\* handle_motion_detection, called at clock value tnow; available is the set of codecs
\* that open should save_video run.  Returns the six values of line 324 and what was done.
handle_motion_detection(motion_detected, buf, lm, la, oa, mfc, lmpt, fmt, tnow, available, dir) ==
    LET umc == update_motion_frame_count(motion_detected, mfc)
        \* lines 268-284
        new_episode == motion_detected /\ lm = None
        fmt1 == IF new_episode THEN Some(tnow) ELSE fmt
        can_send_picture == new_episode /\ CanSendPicture(lmpt, tnow)
        lmpt1 == IF can_send_picture THEN Some(tnow) ELSE lmpt
        \* lines 286-308
        extract == oa /\ ClipDue(fmt1, tnow)
        sv == IF extract
              THEN save_video(buf, Some(Config.video_length_secs), "motion", fmt1, tnow, available, dir)
              ELSE [NoSave EXCEPT !.dir = dir]
        reset == ResetAfterClip(extract, sv.result)
        oa2 == IF reset THEN FALSE ELSE oa
        mfc2 == IF reset THEN 0 ELSE umc.count
        la2 == IF reset THEN Some(tnow) ELSE la
        fmt2 == IF reset THEN None ELSE fmt1
        \* lines 310-317
        can_alert == ShouldAlert(umc.is_sustained_motion, oa2, la2, tnow)
        la3 == IF can_alert THEN Some(tnow) ELSE la2
        oa3 == IF can_alert THEN TRUE ELSE oa2
        \* lines 319-322
        lm4 == NextLastMotion(motion_detected, lm, tnow)
    IN [ last_motion |-> lm4, last_alert |-> la3, on_alert |-> oa3, motion_frame_count |-> mfc2,
         last_motion_picture_time |-> lmpt1, first_motion_time |-> fmt2,
         save |-> sv, opened |-> can_alert, picture |-> can_send_picture ]

----
\* The script up to the capture loop.
ArgsOf(use_telegram, video_seconds, secs_between_alerts, fps, min_motion_frames) ==
    [ use_telegram |-> use_telegram, video_seconds |-> video_seconds,
      detection_seconds |-> ConfigDefaults.detection_seconds,
      secs_between_alerts |-> secs_between_alerts, fps |-> fps,
      min_motion_frames |-> min_motion_frames,
      rtsp |-> "rtsp://camera", token |-> "token", chat_id |-> "chat",
      mask |-> <<0, 0, 1, 1>>, slow_motion10 |-> 10 ]

MainArgs ==
    { ArgsOf(u, v, s, f, m) : u \in UseTelegramInputs, v \in VideoSecondsInputs,
                              s \in SecsBetweenAlertsInputs, f \in FpsInputs,
                              m \in MinMotionFramesInputs }

AllArgs ==
    { ArgsOf(u, v, s, f, m) : u \in UseTelegramInputs, v \in ArgRange,
                              s \in ArgRange, f \in FpsInputs,
                              m \in MinMotionFramesInputs }

\* Inputs of SpecConfig: masks, credentials, stream URL and slow motion factor, valid or not.
MaskCoords == {0 - 1, 0, 1}

ConfigArgs ==
    { [ArgsOf(u, 4, 5, 1, 2) EXCEPT !.mask = <<x1, y1, x2, y2>>, !.token = tk, !.chat_id = ch,
                                   !.rtsp = url, !.slow_motion10 = sm] :
        u \in BOOLEAN, x1 \in MaskCoords, y1 \in MaskCoords, x2 \in MaskCoords,
        y2 \in MaskCoords, tk \in {"", "token"}, ch \in {"", "chat"},
        url \in {"", "rtsp://camera"}, sm \in {0, 10} }

NoCmd == [kind |-> "none", duration |-> 0, available |-> {}, reply |-> "none"]

\* Clips left in the video directory by earlier runs, oldest first, each the result of
\* one successful save_video call.
OldFiles(n) == [i \in 1..n |-> <<"motion", i - 100, 4>>]

OldFileCounts == {0, 18}

InitDir(argset, counts) ==
    /\ phase = "start"
    /\ args \in argset
    /\ Config = ConfigDefaults
    /\ buffer_size = 0
    /\ video_buffer = <<>>
    /\ clock = 0
    /\ stalls = 0
    /\ frames_read = 0
    /\ on_alert = FALSE
    /\ motion_frame_count = 0
    /\ last_motion = None
    /\ last_alert = None
    /\ first_motion_time = None
    /\ last_motion_picture_time = None
    /\ current_frame_motion_detected = FALSE
    /\ now = 0
    /\ \E n \in counts : video_dir = OldFiles(n) /\ saves_ok = n
    /\ save = NoSave
    /\ opened = FALSE
    /\ open_count = 0
    /\ extract_count = 0
    /\ alert_open_time = 0
    /\ extract_frame = 0
    /\ recent = <<>>
    /\ load_error = "ok"
    /\ pc = "loop"
    /\ pending = None
    /\ loop_exit = "none"
    /\ error_alert = "none"
    /\ send_result = "none"
    /\ cmd = NoCmd
    /\ commands = 0
    /\ malformed = FALSE
    /\ enc = NoEnc

InitWith(argset) == InitDir(argset, {0})

Init == InitWith(MainArgs)

InitArgs == InitWith(AllArgs)

InitConfig == InitWith(ConfigArgs)

\* Config.load: the environment is read, the arguments are parsed and the minimums
\* applied, then the settings are validated; an invalid configuration ends the script.
Load ==
    /\ phase = "start"
    /\ LET cfg == parse_arguments(LoadEnv(Config, args), args)
       IN /\ Config' = cfg
          /\ load_error' = LoadCheck(cfg)
          /\ phase' = IF LoadCheck(cfg) = "ok" THEN "loaded" ELSE "rejected"
    /\ UNCHANGED <<args, buffer_size, video_buffer, clock, stalls, frames_read, on_alert,
                   motion_frame_count, last_motion, last_alert, first_motion_time,
                   last_motion_picture_time, current_frame_motion_detected, now, video_dir,
                   save, opened, open_count, extract_count, alert_open_time, extract_frame, recent,
                   loopVars, saves_ok>>

\* main, lines 531-533 and 569-573; process_frames, lines 328-331.
Main ==
    /\ phase = "loaded"
    /\ phase' = "running"
    /\ buffer_size' = BufferSize(Config)
    /\ video_buffer' = <<>>
    /\ on_alert' = FALSE
    /\ current_frame_motion_detected' = FALSE
    /\ motion_frame_count' = 0
    /\ last_motion' = None
    /\ last_alert' = None
    /\ first_motion_time' = None
    /\ last_motion_picture_time' = None
    /\ UNCHANGED <<args, Config, clock, stalls, frames_read, now, video_dir, save, opened,
                   open_count, extract_count, alert_open_time, extract_frame, recent,
                   load_error, loopVars, saves_ok>>

\* The latest n elements of s.
LastN(s, n) == IF Len(s) <= n THEN s ELSE SubSeq(s, Len(s) - n + 1, Len(s))

\* One iteration of the loop of process_frames with a frame: lines 335-366.
\* gap is the time since the previous iteration, motion the classifier's output for the
\* frame, available the codecs that would open.
FrameStep(gap, motion, available) ==
    /\ phase = "running"
    /\ clock + gap <= MaxTime
    /\ LET t == clock + gap
           frame == frames_read + 1
           buf == DequeAppend(video_buffer, <<t, frame>>, buffer_size)
           r == handle_motion_detection(motion, buf, last_motion, last_alert, on_alert,
                                        motion_frame_count, last_motion_picture_time,
                                        first_motion_time, t, available, video_dir)
       IN /\ clock' = t
          /\ now' = t
          /\ frames_read' = frame
          /\ video_buffer' = buf
          /\ current_frame_motion_detected' = motion
          /\ last_motion' = r.last_motion
          /\ last_alert' = r.last_alert
          /\ on_alert' = r.on_alert
          /\ motion_frame_count' = r.motion_frame_count
          /\ last_motion_picture_time' = r.last_motion_picture_time
          /\ first_motion_time' = r.first_motion_time
          /\ video_dir' = r.save.dir
          /\ save' = r.save
          /\ opened' = r.opened
          /\ open_count' = IF r.opened THEN open_count + 1 ELSE open_count
          /\ extract_count' = IF r.save.called THEN extract_count + 1 ELSE extract_count
          /\ alert_open_time' = IF r.opened THEN t ELSE alert_open_time
          /\ extract_frame' = IF r.save.called THEN frame ELSE extract_frame
          /\ recent' = LastN(Append(recent, motion), Config.min_motion_frames)
          /\ saves_ok' = IF r.save.result # None THEN saves_ok + 1 ELSE saves_ok
    /\ stalls' = IF gap > Secs(1) THEN stalls + 1 ELSE stalls
    /\ UNCHANGED <<phase, args, Config, buffer_size, load_error, loopVars>>

\* The gaps a frame can arrive after: the pacing interval, or a long gap.
Gaps == {1} \cup (IF stalls < MaxStalls THEN {Secs(StallSecs)} ELSE {})

Frame == \E gap \in Gaps, motion \in BOOLEAN, available \in AvailableCodecSets :
            FrameStep(gap, motion, available)

\* Mutation of MainAfterProcessing: main goes round its loop and starts again.
MainAfterProcessing_Restart == "loaded"

\* main, lines 573-574: when the processing task is over main breaks out of its loop.
MainAfterProcessing == "ended"

\* process_frames, lines 337-339: the stream has no frame; main, line 574.
StreamEnd ==
    /\ phase = "running"
    /\ pc = "loop"
    /\ phase' = MainAfterProcessing
    /\ loop_exit' = "no_frame"
    /\ cmd' = NoCmd
    /\ UNCHANGED <<args, Config, buffer_size, video_buffer, clock, stalls, frames_read, on_alert,
                   motion_frame_count, last_motion, last_alert, first_motion_time,
                   last_motion_picture_time, current_frame_motion_detected, now, video_dir,
                   save, opened, open_count, extract_count, alert_open_time, extract_frame, recent,
                   load_error, pc, pending, error_alert, send_result, commands, saves_ok,
                   malformed, enc>>

Next == Load \/ Main \/ Frame \/ StreamEnd

Spec == Init /\ [][Next]_vars

NextArgs == Load

SpecArgs == InitArgs /\ [][NextArgs]_vars

\* The script from its start to the start of the capture loop, for every configuration.
NextConfig == Load \/ Main

SpecConfig == InitConfig /\ [][NextConfig]_vars

----
\* The capture loop with its awaits, and the bot commands that run at them.

MaxAsyncTime == 6
MaxCommands == 3

InitAsync == InitDir(MainArgs, OldFileCounts)

\* The alert state handle_motion_detection returns to process_frames.
Returned(r) ==
    [ last_motion |-> r.last_motion, last_alert |-> r.last_alert, on_alert |-> r.on_alert,
      motion_frame_count |-> r.motion_frame_count,
      last_motion_picture_time |-> r.last_motion_picture_time,
      first_motion_time |-> r.first_motion_time, opened |-> r.opened ]

\* handle_motion_detection, lines 273-284 and 298-301: the send the step awaits, if any.
Awaited(r) ==
    IF r.picture THEN "send_picture"
    ELSE IF r.save.result # None /\ Config.use_telegram THEN "send_video"
    ELSE "loop"

\* process_frames, line 347: the values handle_motion_detection returned are assigned.
AssignReturned(ret) ==
    /\ last_motion' = ret.last_motion
    /\ last_alert' = ret.last_alert
    /\ on_alert' = ret.on_alert
    /\ motion_frame_count' = ret.motion_frame_count
    /\ last_motion_picture_time' = ret.last_motion_picture_time
    /\ first_motion_time' = ret.first_motion_time
    /\ opened' = ret.opened
    /\ open_count' = IF ret.opened THEN open_count + 1 ELSE open_count
    /\ alert_open_time' = IF ret.opened THEN now' ELSE alert_open_time

\* One iteration of the loop of process_frames, lines 335-366, up to its first await of
\* a send (lines 284 and 299) or, when it sends nothing, to its end.
FrameBegin(gap, motion, available) ==
    /\ phase = "running"
    /\ pc = "loop"
    /\ clock + gap <= MaxAsyncTime
    /\ LET t == clock + gap
           frame == frames_read + 1
           buf == DequeAppend(video_buffer, <<t, frame>>, buffer_size)
           r == handle_motion_detection(motion, buf, last_motion, last_alert, on_alert,
                                        motion_frame_count, last_motion_picture_time,
                                        first_motion_time, t, available, video_dir)
       IN /\ clock' = t
          /\ now' = t
          /\ frames_read' = frame
          /\ video_buffer' = buf
          /\ current_frame_motion_detected' = motion
          /\ video_dir' = r.save.dir
          /\ save' = r.save
          /\ extract_count' = IF r.save.called THEN extract_count + 1 ELSE extract_count
          /\ extract_frame' = IF r.save.called THEN frame ELSE extract_frame
          /\ recent' = LastN(Append(recent, motion), Config.min_motion_frames)
          /\ saves_ok' = IF r.save.result # None THEN saves_ok + 1 ELSE saves_ok
          /\ pc' = Awaited(r)
          /\ IF Awaited(r) = "loop"
             THEN /\ AssignReturned(Returned(r))
                  /\ pending' = None
             ELSE /\ pending' = Some(Returned(r))
                  /\ UNCHANGED <<last_motion, last_alert, on_alert, motion_frame_count,
                                 last_motion_picture_time, first_motion_time, opened,
                                 open_count, alert_open_time>>
    /\ stalls' = IF gap > Secs(1) THEN stalls + 1 ELSE stalls
    /\ cmd' = NoCmd
    /\ malformed' = FALSE
    /\ UNCHANGED <<phase, args, Config, buffer_size, load_error, loop_exit, error_alert,
                   send_result, commands, enc>>

FrameAsync == \E gap \in Gaps, motion \in BOOLEAN, available \in AvailableCodecSets :
                 FrameBegin(gap, motion, available)

\* Mutation of SendOutcome: a failed send raises into the caller.
SendOutcome_Propagates(ok) == IF ok THEN "returned" ELSE "raised"

\* send_video_to_telegram, lines 192-196, and send_motion_picture_to_telegram, lines
\* 475-494: the exception of a failed send is caught and logged, the call returns.
SendOutcome(ok) == "returned"

\* Mutation of LoopAfterException: the loop goes on with the next frame.
LoopAfterException_Continue == "continue"

\* process_frames, lines 371-374: the handler of an exception ends with break.
LoopAfterException == "break"

\* send_error_alert, lines 209-216.
ErrorAlert(alert_ok) ==
    IF ~Config.use_telegram THEN "disabled"
    ELSE IF alert_ok THEN "sent"
    ELSE "failed"

\* The awaited send is over, delivered (ok) or not: handle_motion_detection goes on to
\* its return, lines 303-324, and the iteration to its end.
SendDone(ok, alert_ok) ==
    /\ phase = "running"
    /\ pc # "loop"
    /\ pc' = "loop"
    /\ pending' = None
    /\ send_result' = IF ok THEN "sent" ELSE "failed"
    /\ cmd' = NoCmd
    /\ IF SendOutcome(ok) = "returned"
       THEN /\ AssignReturned(pending[1])
            /\ UNCHANGED <<phase, loop_exit, error_alert>>
       ELSE /\ loop_exit' = "exception"
            /\ error_alert' = ErrorAlert(alert_ok)
            /\ phase' = IF LoopAfterException = "break" THEN MainAfterProcessing ELSE "running"
            /\ UNCHANGED <<last_motion, last_alert, on_alert, motion_frame_count,
                           last_motion_picture_time, first_motion_time, opened, open_count,
                           alert_open_time>>
    /\ UNCHANGED <<args, Config, buffer_size, video_buffer, clock, stalls, frames_read,
                   current_frame_motion_detected, now, video_dir, save, extract_count,
                   extract_frame, recent, load_error, commands, saves_ok, malformed,
                   enc>>

Sent == \E ok \in BOOLEAN : SendDone(ok, TRUE)

\* An iteration that raises: in read_frame, before the append (where = "read"), or in
\* process_frame or handle_motion_detection, after it (where = "classify"); lines 371-374.
\* bad_frame: the exception is the one OpenCV raises on a malformed or empty frame, in
\* cv2.cvtColor (line 47) or in the classifier (lines 248-249, 221-223), none of which
\* checks the frame or catches the exception.
FrameFault(gap, where, alert_ok, bad_frame) ==
    /\ phase = "running"
    /\ pc = "loop"
    /\ clock + gap <= MaxAsyncTime
    /\ IF where = "read"
       THEN UNCHANGED <<clock, now, frames_read, video_buffer>>
       ELSE /\ clock' = clock + gap
            /\ now' = clock + gap
            /\ frames_read' = frames_read + 1
            /\ video_buffer' = DequeAppend(video_buffer, <<clock + gap, frames_read + 1>>,
                                           buffer_size)
    /\ loop_exit' = "exception"
    /\ error_alert' = ErrorAlert(alert_ok)
    /\ phase' = IF LoopAfterException = "break" THEN MainAfterProcessing ELSE "running"
    /\ cmd' = NoCmd
    /\ malformed' = bad_frame
    /\ UNCHANGED <<args, Config, buffer_size, stalls, on_alert, motion_frame_count,
                   last_motion, last_alert, first_motion_time, last_motion_picture_time,
                   current_frame_motion_detected, video_dir, save, opened, open_count,
                   extract_count, alert_open_time, extract_frame, recent, load_error, pc,
                   pending, send_result, commands, saves_ok, enc>>

Fault == \E where \in {"read", "classify"}, alert_ok \in BOOLEAN, bad_frame \in BOOLEAN :
            FrameFault(1, where, alert_ok, bad_frame)

\* Mutation of BufferReady: the handlers do not look at the buffer first.
BufferReady_Unchecked(buf) == TRUE

\* handle_photo_command, line 392, and send_requested_clip, line 424: the buffer exists
\* and holds an entry.
BufferReady(buf) == Len(buf) > 0

\* Mutation of EnoughFrames: a buffer of exactly the requested length is refused.
EnoughFrames_Strict(len, duration_seconds) == len > Config.fps * duration_seconds

\* send_requested_clip, lines 429-433: the buffer holds the frames of a whole clip.
EnoughFrames(len, duration_seconds) == len >= Config.fps * duration_seconds

\* Mutation of BufferAfterRead: the handler consumes the entries it reads.
BufferAfterRead_Drains(buf) == IF Len(buf) > 0 THEN SubSeq(buf, 1, Len(buf) - 1) ELSE buf

\* The buffer after a handler has read it: video_buffer[-1] (lines 398 and 441) and
\* list(video_buffer) (line 121) leave the deque as it is.
BufferAfterRead(buf) == buf

\* The bot is polling while main awaits the processing task, lines 563 and 573.
CommandReady ==
    /\ phase = "running"
    /\ Config.use_telegram
    /\ commands < MaxCommands

\* handle_photo_command, lines 389-418.
PhotoCommand ==
    /\ CommandReady
    /\ commands' = commands + 1
    /\ cmd' = [NoCmd EXCEPT !.kind = "photo",
                            !.reply = IF BufferReady(video_buffer) THEN "photo"
                                      ELSE "unavailable"]
    /\ video_buffer' = IF BufferReady(video_buffer) THEN BufferAfterRead(video_buffer)
                       ELSE video_buffer
    /\ save' = [NoSave EXCEPT !.dir = video_dir]
    /\ UNCHANGED <<phase, args, Config, buffer_size, clock, stalls, frames_read, on_alert,
                   motion_frame_count, last_motion, last_alert, first_motion_time,
                   last_motion_picture_time, current_frame_motion_detected, now, video_dir,
                   opened, open_count, extract_count, alert_open_time, extract_frame, recent,
                   load_error, pc, pending, loop_exit, error_alert, send_result, saves_ok,
                   malformed, enc>>

\* send_requested_clip, lines 421-460, for /clip5 and /clip20 (lines 463-468), at the
\* clock value of the latest frame.
ClipCommand(duration_seconds, available) ==
    /\ CommandReady
    /\ commands' = commands + 1
    /\ LET ready == BufferReady(video_buffer)
           enough == EnoughFrames(Len(video_buffer), duration_seconds)
           sv == IF ready /\ enough
                 THEN save_video(video_buffer, Some(duration_seconds), "clip", None, clock,
                                 available, video_dir)
                 ELSE [NoSave EXCEPT !.dir = video_dir]
       IN /\ cmd' = [ kind |-> "clip", duration |-> duration_seconds, available |-> available,
                      reply |-> IF ~ready THEN "unavailable"
                                ELSE IF ~enough THEN "not_enough"
                                ELSE IF sv.result # None THEN "video"
                                ELSE "could_not_save" ]
          /\ save' = sv
          /\ video_dir' = sv.dir
          /\ saves_ok' = IF sv.result # None THEN saves_ok + 1 ELSE saves_ok
          /\ video_buffer' = IF ready /\ enough THEN BufferAfterRead(video_buffer)
                             ELSE video_buffer
    /\ UNCHANGED <<phase, args, Config, buffer_size, clock, stalls, frames_read, on_alert,
                   motion_frame_count, last_motion, last_alert, first_motion_time,
                   last_motion_picture_time, current_frame_motion_detected, now,
                   opened, open_count, extract_count, alert_open_time, extract_frame, recent,
                   load_error, pc, pending, loop_exit, error_alert, send_result, malformed,
                   enc>>

Command ==
    \/ PhotoCommand
    \/ \E duration_seconds \in {5, 20}, available \in AvailableCodecSets :
           ClipCommand(duration_seconds, available)

NextAsync == Load \/ Main \/ FrameAsync \/ Sent \/ Fault \/ StreamEnd \/ Command

SpecAsync == InitAsync /\ [][NextAsync]_vars

----
\* The capture loop fed with a fixed sequence of classifier outputs, one frame interval
\* apart, for several clip lengths, cooldowns and frame rates.

Scenario == <<TRUE, TRUE, FALSE, TRUE, TRUE, TRUE>>

ScenarioArgs ==
    { ArgsOf(TRUE, v, s, f, 2) : v \in {4, 5, 6, 8}, s \in {0, 5, 7}, f \in {1, 2} }

InitScenario == InitWith(ScenarioArgs)

ScenarioFrame ==
    /\ frames_read < Len(Scenario)
    /\ \E available \in AvailableCodecSets : FrameStep(1, Scenario[frames_read + 1], available)

NextScenario == Load \/ Main \/ ScenarioFrame

SpecScenario == InitScenario /\ [][NextScenario]_vars

----
\* save_video called with every behaviour of the four writers and every way to end.

SaveCall ==
    \E buffer_empty \in BOOLEAN, outcome \in [1..Len(codecs_to_try) -> WriterOutcomes],
       exit \in SaveExits :
        /\ enc' = save_video_encoders(buffer_empty, outcome, exit)
        /\ UNCHANGED <<phase, args, Config, buffer_size, video_buffer, clock, stalls,
                       frames_read, on_alert, motion_frame_count, last_motion, last_alert,
                       first_motion_time, last_motion_picture_time,
                       current_frame_motion_detected, now, video_dir, save, opened,
                       open_count, extract_count, alert_open_time, extract_frame, recent,
                       load_error, pc, pending, loop_exit, error_alert, send_result, cmd,
                       commands, saves_ok, malformed>>

NextEncoder == SaveCall

SpecEncoder == Init /\ [][NextEncoder]_vars

----
\* Properties.

Started == phase \in {"running", "ended"}

\* A frame step: one more frame has been read.
FrameStepped == frames_read' = frames_read + 1

\* C1: the buffer never holds more than int(fps * (video_length_secs +
\* secs_between_alerts + 5)) entries and always equals the latest min(n, capacity)
\* appended entries, in append order (entry i of the buffer is frame n - len + i).
C1_BufferHoldsLatest ==
    Started =>
        LET capacity == Config.fps * (Config.video_length_secs + Config.secs_between_alerts + 5)
            len == Len(video_buffer)
        IN /\ len <= capacity
           /\ len = Min(frames_read, capacity)
           /\ \A i \in 1..len : video_buffer[i][2] = frames_read - len + i
           /\ \A i \in 1..(len - 1) : video_buffer[i][1] <= video_buffer[i + 1][1]

\* C1 witness: more frames were appended than the buffer holds.
C1_Witness ==
    /\ Started
    /\ frames_read > Len(video_buffer)
    /\ Len(video_buffer) = buffer_size
    /\ video_buffer[1][2] > 1

\* C2: after a frame whose classification is negative the motion frame count is 0,
\* whatever the alert state.
C2_ResetOnNegative ==
    (Started /\ frames_read > 0 /\ ~current_frame_motion_detected) => motion_frame_count = 0

\* C2 witness: a negative frame follows a positive one while an alert is open.
C2_Witness ==
    /\ phase = "running"
    /\ recent = <<TRUE, FALSE>>
    /\ on_alert
    /\ motion_frame_count = 0

\* The latest min_motion_frames classifications exist and were all positive.
LatestAllPositive(r) ==
    /\ Len(r) = Config.min_motion_frames
    /\ \A i \in 1..Len(r) : r[i]

\* The cooldown as the claims state it, on the last_alert the frame step starts with.
CooldownOver(la, tnow) == la = None \/ tnow - la[1] > Config.secs_between_alerts * Config.fps

\* C3 as stated: in a frame step that starts with no alert open, an alert is opened iff
\* the latest min_motion_frames classifications, the current one included, were all
\* positive and last_alert is unset or more than secs_between_alerts before now.
C3_Original ==
    [][(phase = "running" /\ FrameStepped /\ ~on_alert) =>
          (opened' <=> (LatestAllPositive(recent') /\ CooldownOver(last_alert, now')))]_vars

\* C3 amended: in a frame step that starts with no alert open, an alert is opened iff
\* the latest min_motion_frames classifications were all positive, all of them were made
\* in frames after the frame of the latest clip extraction (which resets the count), and
\* last_alert is unset or more than secs_between_alerts before now.
C3_OpensIffSustainedSinceExtraction ==
    [][(phase = "running" /\ FrameStepped /\ ~on_alert) =>
          (opened' <=> /\ LatestAllPositive(recent')
                       /\ frames_read' - extract_frame >= Config.min_motion_frames
                       /\ CooldownOver(last_alert, now'))]_vars

\* C3 witness: an alert is opened for the second time, after an extraction.
C3_Witness ==
    /\ opened
    /\ extract_count >= 1
    /\ frames_read - extract_frame >= Config.min_motion_frames
    /\ LatestAllPositive(recent)

\* C4: at most one episode is open: every opening happens in a step without extraction
\* and with all earlier episodes extracted, so the openings exceed the alert-triggered
\* extractions by one while an alert is open and equal them otherwise.
C4_SingleFlight ==
    /\ open_count = extract_count + (IF on_alert THEN 1 ELSE 0)
    /\ opened => (on_alert /\ ~save.called)

\* C4 witness: a second episode is open, the first one extracted.
C4_Witness == on_alert /\ open_count = 2 /\ extract_count = 1

\* C5: a frame step whose alert-triggered save_video returned no artifact ends with
\* on_alert false, count 0, first_motion_time cleared and last_alert = now.
C5_FailedSaveStillCloses ==
    (save.called /\ save.prefix = "motion" /\ save.result = None) =>
        /\ ~on_alert
        /\ motion_frame_count = 0
        /\ first_motion_time = None
        /\ last_alert = Some(now)

\* C5 witness: the extraction was attempted and no codec opened.
C5_Witness ==
    /\ save.called /\ save.prefix = "motion" /\ save.result = None /\ save.encoder = "none"
    /\ current_frame_motion_detected
    /\ ~on_alert

\* C6 as stated: an open alert is closed no later than the first frame processed at
\* least video_length_secs / 2 after it was opened: after every frame step an alert
\* still open was opened less than video_length_secs / 2 ago.
C6_Original ==
    (phase = "running" /\ on_alert) =>
        2 * (now - alert_open_time) < Config.video_length_secs * Config.fps

\* C7: an alert is opened more than secs_between_alerts after the previous opening, and
\* the extraction of the previous episode was made in an earlier frame step.
C7_CooldownSpacing ==
    [][(FrameStepped /\ opened' /\ open_count >= 1) =>
          /\ now' - alert_open_time > Config.secs_between_alerts * Config.fps
          /\ extract_count = open_count
          /\ extract_count' = extract_count
          /\ ~on_alert]_vars

\* C7 witness: a second alert has just been opened.
C7_Witness == opened /\ open_count >= 2 /\ extract_frame < frames_read

\* C8: after parse_arguments, video_length_secs is the larger of --video-seconds and 4,
\* secs_between_alerts the larger of --secs-between-alerts and video_length_secs + 1,
\* hence secs_between_alerts >= video_length_secs + 1.
C8_ClampedArguments ==
    phase = "loaded" =>
        /\ Config.video_length_secs = (IF args.video_seconds < 4 THEN 4 ELSE args.video_seconds)
        /\ Config.secs_between_alerts =
              (IF args.secs_between_alerts < Config.video_length_secs + 1
               THEN Config.video_length_secs + 1 ELSE args.secs_between_alerts)
        /\ Config.secs_between_alerts >= Config.video_length_secs + 1

\* C8 witness: both arguments were below their minimums, the cooldown below the length.
C8_Witness ==
    /\ phase = "loaded"
    /\ args.video_seconds < 4
    /\ args.secs_between_alerts < args.video_seconds
    /\ Config.secs_between_alerts = 5

\* The set of elements of a sequence.
Range(q) == {q[i] : i \in 1..Len(q)}

\* C9: the entries save_video writes to the encoder are exactly the snapshot entries
\* with start <= timestamp <= end, each once, in buffer order, which is non-decreasing
\* in timestamp.
C9_WritesExactlyWindow ==
    (save.called /\ save.encoder # "none") =>
        LET start2 == save.window[1]
            end2 == save.window[2]
            w == save.written
        IN /\ \A e \in Range(save.snapshot) :
                 (e \in Range(w)) <=> (start2 <= 2 * e[1] /\ 2 * e[1] <= end2)
           /\ Range(w) \subseteq Range(save.snapshot)
           /\ \A i \in 1..(Len(w) - 1) : w[i][2] < w[i + 1][2] /\ w[i][1] <= w[i + 1][1]

\* C9 witness: the snapshot has entries before the window, inside it with one at the
\* very end of the window, and after it.
C9_Witness ==
    /\ save.called /\ save.encoder # "none"
    /\ \E e \in Range(save.snapshot) : 2 * e[1] < save.window[1]
    /\ \E e \in Range(save.snapshot) : 2 * e[1] > save.window[2]
    /\ \E e \in Range(save.written) : 2 * e[1] = save.window[2]

\* C10 as stated: when no buffered entry is inside the window, save_video returns none
\* and the video directory holds no file of the name of that call.
C10_Original ==
    (save.called /\ \A e \in Range(video_buffer) :
                        ~(save.window[1] <= 2 * e[1] /\ 2 * e[1] <= save.window[2])) =>
        /\ save.result = None
        /\ save.filename = None \/ save.filename[1] \notin Range(video_dir)

\* C19: Config.load completes only when the mask has x1 < x2, y1 < y2 and no negative
\* coordinate and, when Telegram is in use, a token and a chat id are set; every other
\* configuration is rejected with an error before the capture loop reads a frame.
C19_LoadValidates ==
    LET m == args.mask
        valid_mask == m[1] < m[3] /\ m[2] < m[4] /\ \A i \in 1..4 : m[i] >= 0
        valid_telegram == args.use_telegram => (args.token # "" /\ args.chat_id # "")
    IN /\ phase \in {"loaded", "running"} =>
              valid_mask /\ valid_telegram /\ Config.mask = m /\ load_error = "ok"
       /\ (phase # "start" /\ ~(valid_mask /\ valid_telegram)) =>
              /\ phase = "rejected"
              /\ load_error # "ok"
              /\ frames_read = 0
              /\ video_buffer = <<>>

\* C19 witness: a configuration with a valid mask that uses Telegram without both
\* credentials has been rejected.
C19_Witness ==
    /\ phase = "rejected"
    /\ load_error = "telegram"
    /\ args.use_telegram
    /\ args.token = "" \/ args.chat_id = ""

\* C20 as stated: in the frame step that opens an alert the first motion time is set to
\* the time of that frame and the motion frame count is reset to 0.
C20_Original ==
    opened => (first_motion_time = Some(now) /\ motion_frame_count = 0)

\* C11 as stated: once more than max_video_files save_video calls have succeeded, the
\* video directory holds exactly max_video_files clips after a successful call.
C11_Original ==
    (save.called /\ save.result # None /\ saves_ok > Config.max_video_files) =>
        Len(video_dir) = Config.max_video_files

\* The latest step was a clip command on a non-empty buffer whose window starts before
\* the earliest buffered timestamp.
ClipBeforeBufferStart ==
    /\ cmd.kind = "clip"
    /\ Len(video_buffer) > 0
    /\ clock - Config.fps * cmd.duration < video_buffer[1][1]

\* The buffered entries with a timestamp in the window of the latest clip command.
ClipWindowFrames ==
    LET InWindow(e) == clock - Config.fps * cmd.duration <= e[1] /\ e[1] <= clock
    IN SelectSeq(video_buffer, InWindow)

C13_Original ==
    (phase = "running" /\ pc = "send_video" /\ clock < MaxAsyncTime) => ENABLED FrameAsync

\* The alert state of process_frames and the classifications made so far.
alertVars == <<on_alert, motion_frame_count, last_motion, last_alert, first_motion_time,
               last_motion_picture_time, current_frame_motion_detected, recent>>

\* C14: the step in which the stream has no frame ends process_frames and main without
\* appending to the buffer, classifying or changing the alert state, and after it no frame
\* is read or appended and the loop is not started again.
C14_NoFrameEndsLoop ==
    [][/\ (loop_exit = "none" /\ loop_exit' = "no_frame") =>
              /\ phase' = "ended"
              /\ UNCHANGED <<video_buffer, frames_read, alertVars, save, video_dir>>
       /\ loop_exit = "no_frame" =>
              /\ phase' = "ended"
              /\ UNCHANGED <<video_buffer, frames_read, alertVars>>]_vars

\* C14 witness: the stream ended after frames had been read, while an alert was open.
C14_Witness ==
    /\ phase = "ended"
    /\ loop_exit = "no_frame"
    /\ frames_read > 0
    /\ on_alert

\* C15: the step in which an iteration raises ends the loop after send_error_alert has
\* been called, with the alert state as the previous iteration left it, and after it no
\* frame is read, appended or classified.
C15_ExceptionHaltsLoop ==
    [][/\ (loop_exit = "none" /\ loop_exit' = "exception") =>
              /\ phase' = "ended"
              /\ error_alert' \in {"sent", "failed"}
              /\ UNCHANGED alertVars
       /\ loop_exit = "exception" =>
              /\ phase' = "ended"
              /\ UNCHANGED <<video_buffer, frames_read, alertVars>>]_vars

\* C15 witness: an iteration raised after frames had been read and the error alert
\* could not be delivered.
C15_Witness ==
    /\ phase = "ended"
    /\ loop_exit = "exception"
    /\ error_alert = "failed"
    /\ frames_read > 0

\* C16: when the send a frame step awaits is over, delivered or failed, the capture loop
\* is still running, the buffer is as it was and the alert state is the one the frame
\* step computed before the send.
C16_SendFailureIsHarmless ==
    [][(phase = "running" /\ pc # "loop" /\ pc' = "loop") =>
           /\ phase' = "running"
           /\ loop_exit' = "none"
           /\ error_alert' = error_alert
           /\ video_buffer' = video_buffer
           /\ on_alert' = pending[1].on_alert
           /\ motion_frame_count' = pending[1].motion_frame_count
           /\ last_motion' = pending[1].last_motion
           /\ last_alert' = pending[1].last_alert
           /\ first_motion_time' = pending[1].first_motion_time
           /\ last_motion_picture_time' = pending[1].last_motion_picture_time]_vars

\* C16 witness: the send of an alert clip has just failed and the loop is running with
\* the alert closed at the time of the extraction.
C16_Witness ==
    /\ phase = "running"
    /\ pc = "loop"
    /\ send_result = "failed"
    /\ save.result # None
    /\ save.prefix = "motion"
    /\ ~on_alert
    /\ last_alert = Some(now)

\* C17: a step of the /photo, /clip5 or /clip20 handler, at any await of the capture
\* loop, leaves the buffer and the alert state as they are.
C17_CommandsReadOnly ==
    [][(commands' = commands + 1) =>
           UNCHANGED <<video_buffer, alertVars, pending, pc, frames_read>>]_vars

\* C17 witness: a clip was delivered on request while the capture loop awaited the send
\* of an alert clip.
C17_Witness ==
    /\ cmd.kind = "clip"
    /\ cmd.reply = "video"
    /\ pc = "send_video"
    /\ pending # None

\* C18: a photo or clip request made while the buffer is empty is answered
\* "unavailable": save_video is not called, no encoder is opened, the video directory
\* is unchanged and the capture loop goes on.
C18_EmptyBufferUnavailable ==
    [][(commands' = commands + 1 /\ Len(video_buffer) = 0) =>
           /\ cmd'.reply = "unavailable"
           /\ ~save'.called
           /\ save'.encoder = "none"
           /\ video_dir' = video_dir
           /\ phase' = "running"
           /\ loop_exit' = "none"]_vars

\* C18 witness: a clip was requested before the first frame was buffered.
C18_Witness ==
    /\ cmd.kind = "clip"
    /\ cmd.reply = "unavailable"
    /\ Len(video_buffer) = 0
    /\ frames_read = 0

\* C27 as stated: after an iteration whose frame was malformed or empty nothing has been
\* raised and the capture loop goes on with the next frame.
C27_Original ==
    malformed => (phase = "running" /\ loop_exit = "none" /\ error_alert = "none")

\* C21: the extraction of a frame step is called with prefix "motion" and a first motion
\* time that is set, and its window is video_length_secs centered on that first motion
\* time; the extraction of a clip command is called with prefix "clip" and its window is
\* the requested seconds ending at the time of the command.
C21_WindowSelection ==
    [][/\ (extract_count' = extract_count + 1) =>
              /\ save'.called
              /\ save'.prefix = "motion"
              /\ first_motion_time # None
              /\ save'.window = <<2 * first_motion_time[1] - Config.fps * Config.video_length_secs,
                                  2 * first_motion_time[1] + Config.fps * Config.video_length_secs>>
       /\ (commands' = commands + 1 /\ save'.called) =>
              /\ save'.prefix = "clip"
              /\ save'.window = <<2 * (clock - Config.fps * cmd'.duration), 2 * clock>>]_vars

\* C21 witness: an alert-triggered extraction ran later than half the clip length after
\* the first motion, so that its centered window is not the tail window.
C21_Witness ==
    /\ save.called
    /\ save.prefix = "motion"
    /\ save.window[2] < 2 * now
    /\ save.window[2] - save.window[1] = 2 * Config.fps * Config.video_length_secs

\* C22 as stated: when an alert-triggered extraction runs on a buffer that has reached its
\* capacity, the window does not start before the earliest buffered timestamp and holds
\* at least one buffered frame.
C22_Original ==
    (save.called /\ save.prefix = "motion" /\ Len(video_buffer) = buffer_size) =>
        /\ save.window[1] >= 2 * video_buffer[1][1]
        /\ \E i \in 1..Len(video_buffer) :
               save.window[1] <= 2 * video_buffer[i][1] /\ 2 * video_buffer[i][1] <= save.window[2]

\* C23: an alert-triggered extraction runs at a time not earlier than the end of its
\* window, first motion time + video_length_secs / 2, and its snapshot is the buffer with
\* the frame of the current iteration as its last entry: the latest min(n, capacity) of
\* the n frames appended so far.
C23_SnapshotAfterWindowEnd ==
    (save.called /\ save.prefix = "motion") =>
        /\ save.window[2] <= 2 * now
        /\ Len(video_buffer) > 0
        /\ video_buffer[Len(video_buffer)] = <<now, frames_read>>
        /\ save.encoder # "none" =>
               /\ save.snapshot = video_buffer
               /\ Len(save.snapshot) = Min(frames_read, buffer_size)
               /\ \A i \in 1..Len(save.snapshot) :
                      save.snapshot[i][2] = frames_read - Len(save.snapshot) + i

\* C23 witness: an extraction ran exactly at the end of its window, on a snapshot that
\* holds every frame read so far.
C23_Witness ==
    /\ save.called
    /\ save.prefix = "motion"
    /\ save.encoder # "none"
    /\ save.window[2] = 2 * now
    /\ Len(save.snapshot) = frames_read
    /\ frames_read >= 3

C25_StillOnlyAtEpisodeStart ==
    [][(FrameStepped /\ last_motion_picture_time' # last_motion_picture_time) =>
           /\ last_motion_picture_time' = Some(now')
           /\ current_frame_motion_detected'
           /\ last_motion = None
           /\ first_motion_time' = Some(now')
           /\ \/ last_motion_picture_time = None
              \/ now' - last_motion_picture_time[1] >
                     Config.fps * Config.motion_picture_cooldown_secs]_vars

\* C25 witness: a motion episode has started within the cooldown of the last still and
\* no still was emitted for it.
C25_Witness ==
    /\ phase = "running"
    /\ first_motion_time = Some(now)
    /\ last_motion_picture_time # None
    /\ last_motion_picture_time # Some(now)
    /\ now - last_motion_picture_time[1] <= Config.fps * Config.motion_picture_cooldown_secs

\* A step that ran save_video, for an alert or for a clip command.
SaveStep == extract_count' = extract_count + 1 \/ (commands' = commands + 1 /\ save'.called)

C29_CloseAndOpenInSeparateSteps ==
    [][FrameStepped =>
           /\ save'.called => (on_alert /\ ~on_alert' /\ ~opened' /\ extract_frame' > extract_frame)
           /\ opened' => (~on_alert /\ on_alert' /\ ~save'.called /\ frames_read' > extract_frame)]_vars

\* C29 witness: the extraction ran in a step whose frame was the second positive frame in
\* a row, and no alert was opened in that step.
C29_Witness ==
    /\ save.called
    /\ current_frame_motion_detected
    /\ recent = <<TRUE, TRUE>>
    /\ ~opened
    /\ ~on_alert
    /\ motion_frame_count = 0

\* A frame step sets first_motion_time to the time of its frame only if the frame is
\* positive and last_motion was unset, and clears last_motion only if the frame is
\* negative and more than 2 seconds after the latest positive frame.
EpisodeStartsAndEnds ==
    /\ first_motion_time' = Some(now') => (current_frame_motion_detected' /\ last_motion = None)
    /\ (last_motion # None /\ last_motion' = None) =>
           (~current_frame_motion_detected' /\ now' - last_motion[1] > 2 * Config.fps)

\* The step of a positive frame at most 2 seconds after the latest positive frame.
PositiveWithinPause ==
    /\ FrameStepped
    /\ current_frame_motion_detected'
    /\ last_motion # None
    /\ now' - last_motion[1] <= 2 * Config.fps

\* C30 as stated: episodes start and end as above, and a positive frame at most 2 seconds
\* after the latest positive frame starts no episode and leaves first_motion_time
\* unchanged.
C30_Original ==
    [][/\ FrameStepped => EpisodeStartsAndEnds
       /\ PositiveWithinPause =>
              (first_motion_time' # Some(now') /\ first_motion_time' = first_motion_time)]_vars

\* C30: episodes start and end as above, and a positive frame at most 2 seconds after the
\* latest positive frame starts no episode: it leaves first_motion_time unchanged unless
\* its step runs the alert's clip extraction, which clears first_motion_time.
C30_EpisodeBoundaries ==
    [][/\ FrameStepped => EpisodeStartsAndEnds
       /\ PositiveWithinPause =>
              /\ first_motion_time' # Some(now')
              /\ IF save'.called THEN first_motion_time' = None
                 ELSE first_motion_time' = first_motion_time]_vars

\* C30 witness: the frame after the opening of an alert was positive and ran the
\* extraction, which cleared first_motion_time in the middle of the motion episode.
C30_Witness ==
    /\ save.called
    /\ current_frame_motion_detected
    /\ recent = <<TRUE, TRUE>>
    /\ alert_open_time = now - 1
    /\ first_motion_time = None
    /\ last_motion = Some(now)

\* The positions of the events of the latest save_video call.
EncEvents == 1..Len(enc.events)

\* The event at position k creates the writer of codec i.
Creates(k, i) == enc.events[k] = <<"create", i>>

\* The writer created at position k is released at a later position, and when it did not
\* open, before any other codec is tried.
ReleasedInTime(k, i) ==
    \E m \in EncEvents :
        /\ m > k
        /\ enc.events[m] = <<"release", i>>
        /\ \A r \in EncEvents : enc.events[r][1] = "return" => m < r
        /\ enc.outcome[i] # "opened" =>
               \A t \in EncEvents : (enc.events[t][1] = "try" /\ t > k) => m < t

\* C31: every encoder that save_video created is released before save_video returns,
\* whichever way the call ends (success, zero frames written, empty snapshot, exception
\* while writing or during the retention), and every candidate encoder that did not open
\* is released before the next codec is tried.
C31_EncodersReleased ==
    enc.called =>
        /\ enc.events[Len(enc.events)][1] = "return"
        /\ \A k \in EncEvents : \A i \in 1..Len(codecs_to_try) :
               Creates(k, i) => ReleasedInTime(k, i)

\* A call whose first writer does not open, whose second raises and whose third opens, and
\* that ends with an exception while writing: both writers have been released.
C31_Witness ==
    /\ enc.called
    /\ ~enc.buffer_empty
    /\ enc.outcome = <<"closed", "raised", "opened", "opened">>
    /\ enc.exit = "write_exception"
    /\ enc.out = 3
    /\ enc.result = "none"
    /\ enc.events = << <<"try", 1>>, <<"create", 1>>, <<"release", 1>>, <<"try", 2>>,
                       <<"try", 3>>, <<"create", 3>>, <<"release", 3>>, <<"return", 0>> >>

====
